---- MODULE Spec2Model ----
(***************************************************************************)
(* A model of src/src/main.rs: the one-shot command line program that      *)
(* posts one message to a ChatWork room.                                   *)
(*                                                                         *)
(* Text is modelled as a sequence of one-character strings, so that        *)
(* parsing, formatting and encoding are computed character by character.   *)
(* A u32 is modelled as a pair <<hi, lo>> of 16-bit limbs (value           *)
(* hi * 65536 + lo), so that the 32-bit width of the room id is kept.      *)
(***************************************************************************)
EXTENDS Integers, Sequences, FiniteSets, TLC

----------------------------------------------------------------------------
(* Bounds of the explored inputs.                                          *)

\* longest generated first argument (over ArgChars)
MaxArgLen == 2
\* longest generated message body (over BodyChars)
MaxBodyLen == 1
\* longest generated list of error strings in a response
MaxErrors == 2

----------------------------------------------------------------------------
(* Text helpers.                                                           *)

Digits == <<"0", "1", "2", "3", "4", "5", "6", "7", "8", "9">>

IsDigit(c) == \E i \in 1..10 : Digits[i] = c

DigitVal(c) == (CHOOSE i \in 1..10 : Digits[i] = c) - 1

DigitChar(d) == Digits[d + 1]

\* all sequences over S of length at most n
SeqsUpTo(S, n) == UNION {[1..k -> S] : k \in 0..n}

----------------------------------------------------------------------------
(* u32 arithmetic on 16-bit limbs.                                         *)

LimbBase == 65536

U32Zero == <<0, 0>>

\* u32::checked_mul(10) followed by u32::checked_add(d): the new value, or
\* overflow when it does not fit 32 bits.
MulAddWrapped(n, d) ==
    LET lo   == n[2] * 10 + d
        hi   == n[1] * 10 + (lo \div LimbBase)
    IN  [overflow |-> FALSE, val |-> <<hi % LimbBase, lo % LimbBase>>]

CheckedMul10Add(n, d) ==
    LET lo   == n[2] * 10 + d
        hi   == n[1] * 10 + (lo \div LimbBase)
    IN  [overflow |-> hi >= LimbBase, val |-> <<hi % LimbBase, lo % LimbBase>>]

\* n / 10 and n % 10 of a u32
DivMod10(n) ==
    LET r  == n[1] % 10
        t  == r * LimbBase + n[2]
    IN  [quot |-> <<n[1] \div 10, t \div 10>>, rem |-> t % 10]

\* str::parse::<u32>: the digits are folded left to right; an empty string,
\* a lone sign, a character that is no ASCII digit (a '-' included) and an
\* overflow are all errors.  One leading '+' is accepted.
RECURSIVE FoldDigits(_, _)
FoldDigits(s, acc) ==
    IF s = <<>> THEN [ok |-> TRUE, val |-> acc]
    ELSE IF ~IsDigit(Head(s)) THEN [ok |-> FALSE, val |-> U32Zero]
    ELSE LET step == CheckedMul10Add(acc, DigitVal(Head(s)))
         IN  IF step.overflow THEN [ok |-> FALSE, val |-> U32Zero]
             ELSE FoldDigits(Tail(s), step.val)

ParseU32(s) ==
    LET digits == IF s # <<>> /\ Head(s) = "+" THEN Tail(s) ELSE s
    IN  IF digits = <<>> THEN [ok |-> FALSE, val |-> U32Zero]
        ELSE FoldDigits(digits, U32Zero)

\* Display for u32 (the "{}" of format!): decimal, no sign, no leading zero.
RECURSIVE FmtDigits(_)
FmtDigits(n) ==
    IF n = U32Zero THEN <<>>
    ELSE LET dm == DivMod10(n) IN Append(FmtDigits(dm.quot), DigitChar(dm.rem))

FmtU32(n) == IF n = U32Zero THEN <<"0">> ELSE FmtDigits(n)

----------------------------------------------------------------------------
(* The process's inputs: its arguments and its environment.                *)

\* An OS string: valid Unicode text, or one that is not valid Unicode.
OsStr(s) == [unicode |-> TRUE, s |-> s]

NonUnicode == [unicode |-> FALSE, s |-> <<>>]

ArgChars == {"0", "7", "a"}

BodyChars == {" ", "&"}

\* numerals around the 32-bit limit, and other first arguments of interest
LongArgs ==
    {<<"4", "2", "9", "4", "9", "6", "7", "2", "9", "5">>,
     <<"4", "2", "9", "4", "9", "6", "7", "2", "9", "6">>,
     <<"9", "9", "9", "9", "9", "9", "9", "9", "9", "9", "9">>,
     <<"0", "0", "4", "2", "9", "4", "9", "6", "7", "2", "9", "5">>,
     <<"+", "7">>,
     <<"+">>,
     <<"-", "7">>,
     <<" ", "7">>}

Arg1s == {OsStr(s) : s \in SeqsUpTo(ArgChars, MaxArgLen) \cup LongArgs}
             \cup {NonUnicode}

Arg2s ==
    {OsStr(s) : s \in SeqsUpTo(BodyChars, MaxBodyLen) \cup {<<"h", "i">>}}
        \cup {NonUnicode}

ExtraArgs == {<<>>, <<OsStr(<<"x">>), NonUnicode>>}

ProgNames == {OsStr(<<"p">>), NonUnicode}

\* every argument vector explored: the program name, then 0, 1, 2 or more
\* arguments
Argvs ==
    LET tails == {<<>>} \cup {<<a>> : a \in Arg1s}
                  \cup {<<a, b>> \o x : a \in Arg1s, b \in Arg2s, x \in ExtraArgs}
    IN  {<<p>> \o t : p \in ProgNames, t \in tails}

\* the variable CHATWORK_API_TOKEN: unset, set to text, or set to bytes that
\* are not valid Unicode
EnvUnset == [set |-> FALSE, unicode |-> FALSE, s |-> <<>>]

EnvSet(s) == [set |-> TRUE, unicode |-> TRUE, s |-> s]

EnvNonUnicode == [set |-> TRUE, unicode |-> FALSE, s |-> <<>>]

Tokens == {<<"T">>, <<" ", "T", " ">>}

Envs == {EnvUnset, EnvNonUnicode} \cup {EnvSet(t) : t \in Tokens}

----------------------------------------------------------------------------
(* parse_args and env_chatwork_token.                                      *)

MsgRoomIdMissing == "arg1 expected room_id, found None"

MsgRoomIdNotNumber == "arg1 expected number for room_id"

MsgBodyMissing == "args2 expected body, found None"

MsgTokenMissing == "CHATWORK_API_TOKEN environment variable not present"

\* std::env::Args::next at position i: None past the end; a panic when the
\* argument it yields is not valid Unicode.
ArgsNext(args, i) ==
    IF i > Len(args) THEN [kind |-> "None", s |-> <<>>]
    ELSE IF ~args[i].unicode THEN [kind |-> "panic", s |-> <<>>]
    ELSE [kind |-> "Some", s |-> args[i].s]

ArgsOutcome(kind, room, text, msg) ==
    [kind |-> kind, room_id |-> room, body |-> text, msg |-> msg]

ArgsPanic == ArgsOutcome("panic", U32Zero, <<>>, "invalid unicode in argument")

parse_args_unchecked(args) ==
    LET a0 == ArgsNext(args, 1)
        a1 == ArgsNext(args, 2)
        a2 == ArgsNext(args, 3)
        n  == ParseU32(a1.s)
    IN  IF a0.kind = "panic" \/ a1.kind = "panic" THEN ArgsPanic
        ELSE IF a1.kind = "None"
             THEN ArgsOutcome("Err", U32Zero, <<>>, MsgRoomIdMissing)
        ELSE IF a2.kind = "panic" THEN ArgsPanic
        ELSE IF a2.kind = "None"
             THEN ArgsOutcome("Err", U32Zero, <<>>, MsgBodyMissing)
        ELSE ArgsOutcome("Ok", n.val, a2.s, "")

parse_args(args) ==
    LET a0 == ArgsNext(args, 1)
        a1 == ArgsNext(args, 2)
        a2 == ArgsNext(args, 3)
        n  == ParseU32(a1.s)
    IN  IF a0.kind = "panic" \/ a1.kind = "panic" THEN ArgsPanic
        ELSE IF a1.kind = "None"
             THEN ArgsOutcome("Err", U32Zero, <<>>, MsgRoomIdMissing)
        ELSE IF ~n.ok
             THEN ArgsOutcome("Err", U32Zero, <<>>, MsgRoomIdNotNumber)
        ELSE IF a2.kind = "panic" THEN ArgsPanic
        ELSE IF a2.kind = "None"
             THEN ArgsOutcome("Err", U32Zero, <<>>, MsgBodyMissing)
        ELSE ArgsOutcome("Ok", n.val, a2.s, "")

\* std::env::var fails for an unset variable and for one that is not valid
\* Unicode; map_err gives both the same message.
env_chatwork_token(e) ==
    IF e.set /\ e.unicode THEN [kind |-> "Ok", token |-> e.s, msg |-> ""]
    ELSE [kind |-> "Err", token |-> <<>>, msg |-> MsgTokenMissing]

----------------------------------------------------------------------------
(* post_message_url: format! and Url::parse.                               *)

UrlPrefix == <<"h", "t", "t", "p", "s", ":", "/", "/", "a", "p", "i", ".", "c", "h", "a", "t", "w", "o", "r", "k", ".", "c", "o", "m", "/", "v", "2", "/", "r", "o", "o", "m", "s", "/">>

UrlSuffix == <<"/", "m", "e", "s", "s", "a", "g", "e", "s">>

\* the first position of c in s, or 0
IndexOf(s, c) ==
    IF \E i \in 1..Len(s) : s[i] = c
    THEN CHOOSE i \in 1..Len(s) : s[i] = c /\ \A j \in 1..(i - 1) : s[j] # c
    ELSE 0

RECURSIVE StripSlashes(_)
StripSlashes(s) ==
    IF s # <<>> /\ Head(s) = "/" THEN StripSlashes(Tail(s)) ELSE s

NoUrl == [scheme |-> <<>>, host |-> <<>>, path |-> <<>>]

\* Url::parse of an absolute URL of a special scheme with no userinfo, port,
\* query or fragment: the scheme ends at the first ':', the slashes after it
\* are skipped, the host ends at the next '/', and the rest is the path
\* ("/" when empty).  No ':' (a relative URL) and an empty host are errors.
UrlParse(s) ==
    LET colon == IndexOf(s, ":")
        rest  == StripSlashes(SubSeq(s, colon + 1, Len(s)))
        slash == IndexOf(rest, "/")
        host  == IF slash = 0 THEN rest ELSE SubSeq(rest, 1, slash - 1)
        path  == IF slash = 0 THEN <<"/">> ELSE SubSeq(rest, slash, Len(rest))
    IN  IF colon <= 1 \/ host = <<>> THEN [ok |-> FALSE, url |-> NoUrl]
        ELSE [ok |-> TRUE,
              url |-> [scheme |-> SubSeq(s, 1, colon - 1),
                       host |-> host, path |-> path]]

post_message_url_low16(room_id) ==
    UrlParse(UrlPrefix \o FmtU32(<<0, room_id[2]>>) \o UrlSuffix)

post_message_url(room_id) ==
    UrlParse(UrlPrefix \o FmtU32(room_id) \o UrlSuffix)

----------------------------------------------------------------------------
(* chatwork_api_headers and the request request_chatwork_api builds.       *)

XChatWorkToken == "X-ChatWorkToken"

ContentType == "Content-Type"

FormMime == <<"a", "p", "p", "l", "i", "c", "a", "t", "i", "o", "n", "/", "x", "-", "w", "w", "w", "-", "f", "o", "r", "m", "-", "u", "r", "l", "e", "n", "c", "o", "d", "e", "d">>

\* Headers::new()
HeadersNew == {}

\* Headers::set: the entry of that name is replaced
HeadersSet(h, name, value) ==
    {e \in h : e[1] # name} \cup {<<name, value>>}

\* Headers::extend: every entry of more is set
HeadersExtend(h, more) ==
    {e \in h : \A m \in more : m[1] # e[1]} \cup more

chatwork_api_headers_no_spaces(token) ==
    HeadersSet(HeadersNew, XChatWorkToken, SelectSeq(token, LAMBDA c : c # " "))

chatwork_api_headers(token) ==
    HeadersSet(HeadersNew, XChatWorkToken, token)

\* application/x-www-form-urlencoded of one character
FormEncodeChar(c) ==
    CASE c = " " -> <<"+">>
      [] c = "&" -> <<"%", "2", "6">>
      [] c = "=" -> <<"%", "3", "D">>
      [] c = "+" -> <<"%", "2", "B">>
      [] c = "%" -> <<"%", "2", "5">>
      [] OTHER   -> <<c>>

RECURSIVE FormEncode(_)
FormEncode(s) ==
    IF s = <<>> THEN <<>> ELSE FormEncodeChar(Head(s)) \o FormEncode(Tail(s))

\* #[derive(Serialize)] struct PostMessageRequest { body }, as serde_urlencoded
\* writes it: the one pair body=<value>
PostMessageRequestForm(text) == <<"b", "o", "d", "y", "=">> \o FormEncode(text)

\* Client::new().post(url).form(body).headers(headers)
BuildRequest(url, headers, text) ==
    [method  |-> "POST",
     url     |-> url,
     headers |-> HeadersExtend(HeadersSet(HeadersNew, ContentType, FormMime),
                               headers),
     body    |-> PostMessageRequestForm(text)]

----------------------------------------------------------------------------
(* The service's answer and its decoding.                                  *)

\* a JSON value at a field of the response object (or the field's absence)
JAbsent == [t |-> "absent", s |-> <<>>, a |-> <<>>]

JNum == [t |-> "num", s |-> <<>>, a |-> <<>>]

JStr(s) == [t |-> "str", s |-> s, a |-> <<>>]

\* an array of strings
JArr(a) == [t |-> "arr", s |-> <<>>, a |-> a]

\* an array holding something that is no string
JArrOther == [t |-> "arr_other", s |-> <<>>, a |-> <<>>]

MessageIds == {<<>>, <<"9">>, <<"\"">>, <<"9", "\\", "9">>}

ErrStrings == {<<"e", "1">>, <<"e", "2">>}

MessageIdValues ==
    {JAbsent, JNum, JArr(<<>>)} \cup {JStr(m) : m \in MessageIds}

ErrorsValues ==
    {JAbsent, JNum, JArrOther, JStr(<<"e", "1">>)}
        \cup {JArr(es) : es \in SeqsUpTo(ErrStrings, MaxErrors)}

\* a response body: no JSON at all ("garbage"), a JSON number, string,
\* boolean or null ("scalar"), or a JSON object with its errors and
\* message_id fields (fields of other names are ignored by the decoder)
BodyOf(kind, e, m) == [kind |-> kind, errors |-> e, message_id |-> m]

ResponseBodies ==
    {BodyOf("garbage", JAbsent, JAbsent), BodyOf("scalar", JAbsent, JAbsent)}
        \cup {BodyOf("object", e, m) : e \in ErrorsValues, m \in MessageIdValues}

NoResponse == [status |-> 0, body |-> BodyOf("none", JAbsent, JAbsent)]

\* every body with status 200, and the bodies without a message_id field with
\* status 401 as well
Responses ==
    {[status |-> 200, body |-> b] : b \in ResponseBodies}
        \cup {[status |-> 401, body |-> b] :
                 b \in {x \in ResponseBodies : x.message_id = JAbsent}}

Decoded(variant, es, m) == [variant |-> variant, errors |-> es, message_id |-> m]

\* #[serde(untagged)] enum PostMessageResponse: the variants are tried in the
\* order written, Error { errors: Vec<String> } before
\* MessageId { message_id: String }; a field of another name is ignored; when
\* no variant fits, decoding fails.
PostMessageResponse_by_message_id_first(b) ==
    IF b.kind # "object" THEN Decoded("none", <<>>, <<>>)
    ELSE IF b.message_id.t = "str"
         THEN Decoded("MessageId", <<>>, b.message_id.s)
    ELSE IF b.errors.t = "arr" THEN Decoded("Error", b.errors.a, <<>>)
    ELSE Decoded("none", <<>>, <<>>)

PostMessageResponse_lenient(b) ==
    IF b.kind # "object" THEN Decoded("none", <<>>, <<>>)
    ELSE IF b.errors.t = "arr" THEN Decoded("Error", b.errors.a, <<>>)
    ELSE IF b.message_id.t = "str"
         THEN Decoded("MessageId", <<>>, b.message_id.s)
    ELSE Decoded("Error", <<>>, <<>>)

PostMessageResponse(b) ==
    IF b.kind # "object" THEN Decoded("none", <<>>, <<>>)
    ELSE IF b.errors.t = "arr" THEN Decoded("Error", b.errors.a, <<>>)
    ELSE IF b.message_id.t = "str"
         THEN Decoded("MessageId", <<>>, b.message_id.s)
    ELSE Decoded("none", <<>>, <<>>)

\* the value post_message returns: Ok(MessageId) or Err(PostMessageError)
Result(kind, m, es, detail) ==
    [kind |-> kind, message_id |-> m, errors |-> es, detail |-> detail]

NoResult == Result("none", <<>>, <<>>, "")

\* From<url::ParseError> and From<reqwest::Error> for PostMessageError
FromUrlParseError == Result("UrlParse", <<>>, <<>>, "url")

FromReqwestError(detail) == Result("Reqwest", <<>>, <<>>, detail)

\* the match at the end of post_message
MapResponse_reversed(d) ==
    IF d.variant = "Error" THEN Result("API", <<>>, [i \in 1..Len(d.errors) |-> d.errors[Len(d.errors) + 1 - i]], "")
    ELSE Result("Ok", d.message_id, <<>>, "")

MapResponse(d) ==
    IF d.variant = "Error" THEN Result("API", <<>>, d.errors, "")
    ELSE Result("Ok", d.message_id, <<>>, "")

----------------------------------------------------------------------------
(* println!("{:?}", response).                                             *)

\* Debug for str: in double quotes, with '"' and '\' escaped
DebugChar(c) ==
    IF c = "\"" \/ c = "\\" THEN <<"\\", c>> ELSE <<c>>

RECURSIVE DebugEscape(_)
DebugEscape(s) ==
    IF s = <<>> THEN <<>> ELSE DebugChar(Head(s)) \o DebugEscape(Tail(s))

DebugStr(s) == <<"\"">> \o DebugEscape(s) \o <<"\"">>

\* #[derive(Debug)] struct MessageId { message_id }
DebugMessageId(m) ==
    <<"M", "e", "s", "s", "a", "g", "e", "I", "d", " ", "{", " ", "m", "e", "s", "s", "a", "g", "e", "_", "i", "d", ":", " ">> \o DebugStr(m) \o <<" ", "}">>

----------------------------------------------------------------------------
(* The run of main.                                                        *)

VARIABLES
    argv,       \* the process's arguments, the program name first
    env,        \* the environment's CHATWORK_API_TOKEN
    pc,         \* the statement of main that runs next
    calls,      \* the functions main has called, in order
    room_id,    \* main's room_id
    body,       \* main's body
    token,      \* main's token
    sent,       \* the requests handed to send(), in order
    response,   \* the response send() returned
    result,     \* what post_message returned
    stdout,     \* the lines printed to standard output
    panic,      \* the panic that ended the run
    exit_code   \* the process's exit status; -1 while it runs

vars == <<argv, env, pc, calls, room_id, body, token, sent, response, result,
          stdout, panic, exit_code>>

NoPanic == [at |-> "", msg |-> ""]

Init ==
    /\ argv \in Argvs
    /\ env \in Envs
    /\ pc = "parse_args"
    /\ calls = <<>>
    /\ room_id = U32Zero
    /\ body = <<>>
    /\ token = <<>>
    /\ sent = <<>>
    /\ response = NoResponse
    /\ result = NoResult
    /\ stdout = <<>>
    /\ panic = NoPanic
    /\ exit_code = -1

\* Result::unwrap: the value of an Ok; a panic on an Err
UnwrapContinuing(kind) == TRUE

Unwrap(kind) == kind = "Ok"

\* a panic writes its message to standard error and leaves standard output
\* as it is
PanicStdoutPrintingError(out, msg) == Append(out, <<msg>>)

PanicStdout(out, msg) == out

\* the process dies of a panic in main: exit status 101
Panicked(at, msg) ==
    /\ pc' = "panicked"
    /\ panic' = [at |-> at, msg |-> msg]
    /\ stdout' = PanicStdout(stdout, msg)
    /\ exit_code' = 101

\* let (room_id, body) = parse_args().unwrap();
Main_parse_args ==
    /\ pc = "parse_args"
    /\ calls' = Append(calls, "parse_args")
    /\ LET r == parse_args(argv)
       IN  IF Unwrap(r.kind)
           THEN /\ room_id' = r.room_id
                /\ body' = r.body
                /\ pc' = "env_chatwork_token"
                /\ UNCHANGED <<stdout, panic, exit_code>>
           ELSE /\ Panicked("parse_args", r.msg)
                /\ UNCHANGED <<room_id, body>>
    /\ UNCHANGED <<argv, env, token, sent, response, result>>

\* let token = env_chatwork_token().unwrap();
Main_env_chatwork_token ==
    /\ pc = "env_chatwork_token"
    /\ calls' = Append(calls, "env_chatwork_token")
    /\ LET r == env_chatwork_token(env)
       IN  IF Unwrap(r.kind)
           THEN /\ token' = r.token
                /\ pc' = "post_message"
                /\ UNCHANGED <<stdout, panic, exit_code>>
           ELSE /\ Panicked("env_chatwork_token", r.msg)
                /\ UNCHANGED token
    /\ UNCHANGED <<argv, env, room_id, body, sent, response, result>>

\* the requests one call of request_chatwork_api hands to send(): one,
\* whether send() fails or not
SendAttemptsWithRetry(req, failed) == IF failed THEN <<req, req>> ELSE <<req>>

SendAttempts(req, failed) == <<req>>

\* post_message(&token, room_id, &body) up to the return of send(): the URL
\* and the headers are built and the request is sent; the network either
\* fails or returns a response.
Main_post_message_send ==
    /\ pc = "post_message"
    /\ calls' = Append(calls, "post_message")
    /\ LET u == post_message_url(room_id)
           req == BuildRequest(u.url, chatwork_api_headers(token), body)
       IN  IF ~u.ok
           THEN /\ result' = FromUrlParseError
                /\ Panicked("post_message", "UrlParse")
                /\ UNCHANGED <<sent, response>>
           ELSE \/ /\ sent' = sent \o SendAttempts(req, TRUE)
                   /\ result' = FromReqwestError("send")
                   /\ Panicked("post_message", "Reqwest")
                   /\ UNCHANGED response
                \/ /\ sent' = sent \o SendAttempts(req, FALSE)
                   /\ response' \in Responses
                   /\ pc' = "json"
                   /\ UNCHANGED <<result, stdout, panic, exit_code>>
    /\ UNCHANGED <<argv, env, room_id, body, token>>

\* the rest of post_message: .json() decodes the body, the match maps the
\* decoded response, and main unwraps the result.
Main_post_message_json ==
    /\ pc = "json"
    /\ LET d == PostMessageResponse(response.body)
           r == IF d.variant = "none" THEN FromReqwestError("json")
                ELSE MapResponse(d)
       IN  /\ result' = r
           /\ IF Unwrap(r.kind)
              THEN /\ pc' = "println"
                   /\ UNCHANGED <<stdout, panic, exit_code>>
              ELSE Panicked("post_message", r.kind)
    /\ UNCHANGED <<argv, env, calls, room_id, body, token, sent, response>>

\* println!("{:?}", response); and the return from main
Main_println ==
    /\ pc = "println"
    /\ calls' = Append(calls, "println")
    /\ stdout' = Append(stdout, DebugMessageId(result.message_id))
    /\ pc' = "exited"
    /\ exit_code' = 0
    /\ UNCHANGED <<argv, env, room_id, body, token, sent, response, result,
                   panic>>

Next ==
    \/ Main_parse_args
    \/ Main_env_chatwork_token
    \/ Main_post_message_send
    \/ Main_post_message_json
    \/ Main_println

Spec == Init /\ [][Next]_vars

----------------------------------------------------------------------------
(* What the inputs say, read off the inputs alone.                         *)

\* the argument at position i (1 is the first after the program name) exists
HasArg(i) == Len(argv) >= i + 1

Arg(i) == argv[i + 1]

\* the run's parse_args returned Ok / the run's token lookup returned Ok
ArgsAccepted == parse_args(argv).kind = "Ok"

TokenPresent == env_chatwork_token(env).kind = "Ok"

Finished == pc \in {"exited", "panicked"}

MainOrder == <<"parse_args", "env_chatwork_token", "post_message", "println">>

----------------------------------------------------------------------------
(* C1: main calls parse_args, env_chatwork_token, post_message and println *)
(* in that order and stops at the first failure: in a run whose arguments  *)
(* are rejected nothing is sent and the token is neither looked up nor     *)
(* reported missing, and in a run whose token is missing nothing is sent.  *)
C1_FailFastInOrder ==
    /\ calls = SubSeq(MainOrder, 1, Len(calls))
    /\ ~ArgsAccepted =>
          /\ sent = <<>>
          /\ calls \in {<<>>, <<"parse_args">>}
          /\ panic.msg # MsgTokenMissing
    /\ ~TokenPresent => sent = <<>> /\ Len(calls) <= 2

\* a run with good arguments and no token has stopped at the token lookup
C1_Witness ==
    /\ pc = "panicked"
    /\ ArgsAccepted
    /\ panic = [at |-> "env_chatwork_token", msg |-> MsgTokenMissing]
    /\ calls = <<"parse_args", "env_chatwork_token">>
    /\ sent = <<>>

----------------------------------------------------------------------------
(* C2: a run hands at most one request to send(); a finished run whose     *)
(* arguments, token and URL were all good handed over exactly one; and a   *)
(* failed send or a failed decode ends the run with that one request and   *)
(* no step left to take.                                                   *)
C2_OnePostNoRetry ==
    /\ Len(sent) <= 1
    /\ (Finished /\ ArgsAccepted /\ TokenPresent
          /\ post_message_url(room_id).ok) => Len(sent) = 1
    /\ result.kind = "Reqwest" =>
          /\ Len(sent) = 1
          /\ pc = "panicked"
          /\ ~ENABLED Next

\* a response arrived, could not be decoded, and the run ended with the one
\* request it had made
C2_Witness ==
    /\ result = FromReqwestError("json")
    /\ response # NoResponse
    /\ Len(sent) = 1
    /\ pc = "panicked"

----------------------------------------------------------------------------
(* Decimal numerals, read independently of the parser.                     *)

IsNumeral(s) == s # <<>> /\ \A i \in 1..Len(s) : IsDigit(s[i])

RECURSIVE StripZeros(_)
StripZeros(s) ==
    IF s # <<>> /\ Head(s) = "0" THEN StripZeros(Tail(s)) ELSE s

\* the numeral without leading zeros ("0" for zero)
Canon(s) == IF StripZeros(s) = <<>> THEN <<"0">> ELSE StripZeros(s)

U32MaxDigits == <<"4", "2", "9", "4", "9", "6", "7", "2", "9", "5">>

\* a <= b for numerals of one length
RECURSIVE LexLeq(_, _)
LexLeq(a, b) ==
    \/ a = <<>>
    \/ DigitVal(Head(a)) < DigitVal(Head(b))
    \/ Head(a) = Head(b) /\ LexLeq(Tail(a), Tail(b))

\* the numeral's value is at most 4294967295
FitsU32(s) ==
    \/ Len(Canon(s)) < Len(U32MaxDigits)
    \/ Len(Canon(s)) = Len(U32MaxDigits) /\ LexLeq(Canon(s), U32MaxDigits)

RECURSIVE NatVal(_)
NatVal(s) ==
    IF s = <<>> THEN 0
    ELSE NatVal(SubSeq(s, 1, Len(s) - 1)) * 10 + DigitVal(s[Len(s)])

\* the limbs of a numeral that fits 32 bits, from its upper digits A and its
\* last five digits B: A * 100000 + B = A * 65536 + (A * 34464 + B)
NumeralLimbs(s) ==
    LET c == Canon(s)
        k == Len(c)
        A == IF k > 5 THEN NatVal(SubSeq(c, 1, k - 5)) ELSE 0
        B == IF k > 5 THEN NatVal(SubSeq(c, k - 4, k)) ELSE NatVal(c)
        t == A * 34464 + B
    IN  <<A + (t \div 65536), t % 65536>>

\* the digits of a first argument that str::parse::<u32> reads: the text
\* without one leading '+'
Unsigned(s) == IF s # <<>> /\ Head(s) = "+" THEN Tail(s) ELSE s

\* the text is an unsigned 32-bit integer in base 10
ParsesAsU32(s) == IsNumeral(Unsigned(s)) /\ FitsU32(Unsigned(s))

\* parse_args has run / returned this error / returned Ok
AfterParseArgs == calls # <<>>

ArgsRejected(msg) ==
    pc = "panicked" /\ panic = [at |-> "parse_args", msg |-> msg]

ArgsPassed == AfterParseArgs /\ ~(pc = "panicked" /\ panic.at = "parse_args")

----------------------------------------------------------------------------
(* C3 as stated: parse_args answers a missing first argument with          *)
(* "room_id argument missing.", a first argument that is no unsigned       *)
(* integer with "room_id argument is not a valid number.", a missing       *)
(* second argument with "body argument missing.", and otherwise returns    *)
(* the room id and the second argument as it is (checked here on the       *)
(* argument lists that are valid Unicode throughout).                      *)
C3_Original ==
    (AfterParseArgs /\ \A i \in 1..Len(argv) : argv[i].unicode) =>
      /\ ~HasArg(1) => ArgsRejected("room_id argument missing.")
      /\ (HasArg(1) /\ ~(Arg(1).unicode /\ ParsesAsU32(Arg(1).s))) =>
            ArgsRejected("room_id argument is not a valid number.")
      /\ (HasArg(1) /\ Arg(1).unicode /\ ParsesAsU32(Arg(1).s) /\ ~HasArg(2)) =>
            ArgsRejected("body argument missing.")
      /\ (HasArg(1) /\ Arg(1).unicode /\ ParsesAsU32(Arg(1).s) /\ HasArg(2)) =>
            /\ ArgsPassed
            /\ FmtU32(room_id) = Canon(Unsigned(Arg(1).s))
            /\ body = Arg(2).s

(* C3 as amended: the same classification with the messages the code       *)
(* gives, "arg1 expected room_id, found None", "arg1 expected number for   *)
(* room_id" and "args2 expected body, found None", for argument lists      *)
(* whose program name and examined arguments are valid Unicode; the        *)
(* arguments after the second are not examined.  An argument that is not   *)
(* valid Unicode makes parse_args panic when it is reached.                *)
C3_ParseArgsClassifies ==
    AfterParseArgs =>
      IF ~argv[1].unicode THEN ArgsRejected(ArgsPanic.msg)
      ELSE IF ~HasArg(1)
           THEN ArgsRejected("arg1 expected room_id, found None")
      ELSE IF ~Arg(1).unicode THEN ArgsRejected(ArgsPanic.msg)
      ELSE IF ~ParsesAsU32(Arg(1).s)
           THEN ArgsRejected("arg1 expected number for room_id")
      ELSE IF ~HasArg(2)
           THEN ArgsRejected("args2 expected body, found None")
      ELSE IF ~Arg(2).unicode THEN ArgsRejected(ArgsPanic.msg)
      ELSE /\ ArgsPassed
           /\ FmtU32(room_id) = Canon(Unsigned(Arg(1).s))
           /\ body = Arg(2).s

\* a first argument that is no number was rejected although a second and a
\* third argument follow it
C3_Witness ==
    /\ ArgsRejected("arg1 expected number for room_id")
    /\ Len(argv) = 5
    /\ Arg(1).s = <<"a", "7">>
    /\ Arg(2).s = <<" ">>

----------------------------------------------------------------------------
(* C4 as stated: every first argument that is a base-10 numeral is         *)
(* accepted, whatever its size, and the room id is exactly its value.      *)
C4_Original ==
    (AfterParseArgs /\ argv[1].unicode /\ HasArg(1) /\ Arg(1).unicode
        /\ IsNumeral(Arg(1).s)) =>
      /\ ~ArgsRejected(MsgRoomIdNotNumber)
      /\ ArgsPassed => FmtU32(room_id) = Canon(Arg(1).s)

(* C4 as amended: a first argument that is a base-10 numeral of a value up *)
(* to 4294967295 (leading zeros allowed) is accepted and the room id is    *)
(* exactly that value; a numeral of a greater value is rejected as not a   *)
(* number.                                                                 *)
C4_RoomIdIsThe32BitValue ==
    (AfterParseArgs /\ argv[1].unicode /\ HasArg(1) /\ Arg(1).unicode
        /\ IsNumeral(Arg(1).s)) =>
      IF FitsU32(Arg(1).s)
      THEN /\ ~ArgsRejected(MsgRoomIdNotNumber)
           /\ ArgsPassed =>
                /\ room_id = NumeralLimbs(Arg(1).s)
                /\ FmtU32(room_id) = Canon(Arg(1).s)
      ELSE ArgsRejected(MsgRoomIdNotNumber)

\* the greatest room id, written with leading zeros, was accepted
C4_Witness ==
    /\ ArgsPassed
    /\ Arg(1).s = <<"0", "0">> \o U32MaxDigits
    /\ room_id = <<65535, 65535>>

----------------------------------------------------------------------------
(* The response's shape, read off the response alone.                      *)

\* post_message has decoded a response and returned
AfterJson == response # NoResponse /\ result # NoResult

RespBody == response.body

\* the JSON object has a field of that name, of whatever type
HasErrorsField == RespBody.kind = "object" /\ RespBody.errors.t # "absent"

HasMessageIdField == RespBody.kind = "object" /\ RespBody.message_id.t # "absent"

\* the field is there with the type the variant declares
ErrorsFit == RespBody.kind = "object" /\ RespBody.errors.t = "arr"

MessageIdFits == RespBody.kind = "object" /\ RespBody.message_id.t = "str"

----------------------------------------------------------------------------
(* C5: a response {message_id: m} makes post_message return Ok(MessageId)  *)
(* carrying m, and a response {errors: es} makes it return                 *)
(* Err(PostMessageError::API) carrying es, element for element and in the  *)
(* same order, the empty list included.                                    *)
C5_ResponseMapping ==
    AfterJson =>
      /\ (MessageIdFits /\ ~HasErrorsField) =>
            result = Result("Ok", RespBody.message_id.s, <<>>, "")
      /\ (ErrorsFit /\ ~HasMessageIdField) =>
            result = Result("API", <<>>, RespBody.errors.a, "")

\* an error response with two different error strings was mapped
C5_Witness ==
    /\ AfterJson
    /\ ~HasMessageIdField
    /\ result.kind = "API"
    /\ result.errors = <<<<"e", "2">>, <<"e", "1">>>>

----------------------------------------------------------------------------
(* C6 as stated: whenever the response object has a message_id field       *)
(* post_message returns Ok, and whenever it has an errors field            *)
(* post_message returns an API error, an object with both fields included  *)
(* (checked here on the fields that have the variant's declared type).     *)
C6_Original ==
    AfterJson =>
      /\ MessageIdFits => result.kind = "Ok"
      /\ ErrorsFit => result.kind = "API"

(* C6 as amended: the variants are tried in the order written, by field    *)
(* and type.  Whenever the object's errors field is an array of strings    *)
(* post_message returns the API error, message_id present or not;          *)
(* whenever its message_id field is a string and there is no errors field  *)
(* that is an array of strings, post_message returns Ok.                   *)
C6_VariantByFieldAndOrder ==
    AfterJson =>
      /\ ErrorsFit => result = Result("API", <<>>, RespBody.errors.a, "")
      /\ (MessageIdFits /\ ~ErrorsFit) =>
            result = Result("Ok", RespBody.message_id.s, <<>>, "")

\* an object with both fields, each of its declared type, gave the API error
C6_Witness ==
    /\ AfterJson
    /\ ErrorsFit
    /\ MessageIdFits
    /\ result.kind = "API"

----------------------------------------------------------------------------
(* C7: when a response arrived whose body fits neither variant (or is no   *)
(* JSON), post_message returns PostMessageError::Reqwest, never Ok and     *)
(* never API; and PostMessageError::API is returned only after a response  *)
(* arrived whose body decoded to the error variant.                        *)
C7_NeitherShapeIsReqwest ==
    /\ (AfterJson /\ ~ErrorsFit /\ ~MessageIdFits) =>
          result = FromReqwestError("json")
    /\ result.kind = "API" =>
          /\ response # NoResponse
          /\ Len(sent) = 1
          /\ ErrorsFit
          /\ result.errors = RespBody.errors.a

\* a JSON object with both fields, neither of its declared type, gave the
\* Reqwest error
C7_Witness ==
    /\ AfterJson
    /\ HasErrorsField /\ ~ErrorsFit
    /\ HasMessageIdField /\ ~MessageIdFits
    /\ result = FromReqwestError("json")
    /\ pc = "panicked"

----------------------------------------------------------------------------
(* C8: a run prints to standard output at most once, and only when         *)
(* parse_args, env_chatwork_token and post_message all succeeded; what it  *)
(* prints is the Debug text of the MessageId holding the service's message *)
(* id, and the run exits with status 0.  A run in which a step failed      *)
(* prints nothing to standard output and ends abnormally (non-zero).       *)
C8_PrintsOnlyOnSuccess ==
    /\ Len(stdout) <= 1
    /\ stdout # <<>> =>
          /\ pc = "exited"
          /\ ArgsAccepted /\ TokenPresent /\ result.kind = "Ok"
          /\ MessageIdFits
          /\ stdout = <<DebugMessageId(RespBody.message_id.s)>>
    /\ pc = "exited" => exit_code = 0 /\ Len(stdout) = 1
    /\ pc = "panicked" => exit_code > 0 /\ stdout = <<>>
    /\ (Finished /\ (~ArgsAccepted \/ ~TokenPresent
                       \/ result.kind \in {"Reqwest", "UrlParse", "API"})) =>
          pc = "panicked"
    /\ exit_code = 0 => pc = "exited"

\* the service answered with the message id " and the run printed
\* MessageId { message_id: "\"" } and exited with status 0
C8_Witness ==
    /\ pc = "exited"
    /\ exit_code = 0
    /\ RespBody.message_id.s = <<"\"">>
    /\ stdout = <<<<"M", "e", "s", "s", "a", "g", "e", "I", "d", " ", "{", " ", "m", "e", "s", "s", "a", "g", "e", "_", "i", "d", ":", " ", "\"", "\\", "\"", "\"", " ", "}">>>>

----------------------------------------------------------------------------
(* C9: for the room id parse_args accepted, post_message_url succeeds and  *)
(* gives the URL of scheme https, host api.chatwork.com and path           *)
(* /v2/rooms/<the room id in decimal>/messages; no other room id gives     *)
(* that URL.                                                               *)
RoomsCompared ==
    {<<0, 0>>, <<0, 7>>, <<0, 70>>, <<0, 77>>, <<0, 65535>>, <<1, 7>>,
     <<7, 0>>, <<65535, 65535>>}

C9_UrlOfRoom ==
    /\ result.kind # "UrlParse"
    /\ ArgsPassed => post_message_url(room_id).ok
    /\ sent # <<>> =>
          /\ sent[1].url.scheme = <<"h", "t", "t", "p", "s">>
          /\ sent[1].url.host = <<"a", "p", "i", ".", "c", "h", "a", "t", "w", "o", "r", "k", ".", "c", "o", "m">>
          /\ sent[1].url.path
                = <<"/", "v", "2", "/", "r", "o", "o", "m", "s", "/">>
                    \o Canon(Unsigned(Arg(1).s)) \o <<"/", "m", "e", "s", "s", "a", "g", "e", "s">>
          /\ \A r \in RoomsCompared :
                post_message_url(r).url = sent[1].url => r = room_id

\* the request for room 4294967295 went to /v2/rooms/4294967295/messages
C9_Witness ==
    /\ sent # <<>>
    /\ room_id = <<65535, 65535>>
    /\ sent[1].url.path
          = <<"/", "v", "2", "/", "r", "o", "o", "m", "s", "/">> \o U32MaxDigits
              \o <<"/", "m", "e", "s", "s", "a", "g", "e", "s">>

----------------------------------------------------------------------------
(* The form body as the service reads it.                                  *)

\* the pieces of s between the occurrences of c
RECURSIVE SplitOn(_, _)
SplitOn(s, c) ==
    LET i == IndexOf(s, c)
    IN  IF i = 0 THEN <<s>>
        ELSE <<SubSeq(s, 1, i - 1)>> \o SplitOn(SubSeq(s, i + 1, Len(s)), c)

HexPairChar(a, b) ==
    CASE <<a, b>> = <<"2", "6">> -> "&"
      [] <<a, b>> = <<"3", "D">> -> "="
      [] <<a, b>> = <<"2", "B">> -> "+"
      [] <<a, b>> = <<"2", "5">> -> "%"
      [] OTHER -> "?"

RECURSIVE PercentDecode(_)
PercentDecode(s) ==
    IF s = <<>> THEN <<>>
    ELSE IF Head(s) = "+" THEN <<" ">> \o PercentDecode(Tail(s))
    ELSE IF Head(s) = "%" /\ Len(s) >= 3
         THEN <<HexPairChar(s[2], s[3])>> \o PercentDecode(SubSeq(s, 4, Len(s)))
    ELSE <<Head(s)>> \o PercentDecode(Tail(s))

\* the fields of an application/x-www-form-urlencoded body, in order
FormDecode(s) ==
    LET pieces == SplitOn(s, "&")
    IN  [i \in 1..Len(pieces) |->
            LET eq == IndexOf(pieces[i], "=")
            IN  IF eq = 0 THEN <<PercentDecode(pieces[i]), <<>>>>
                ELSE <<PercentDecode(SubSeq(pieces[i], 1, eq - 1)),
                       PercentDecode(SubSeq(pieces[i], eq + 1, Len(pieces[i])))>>]

\* main holds the token env_chatwork_token returned
AfterToken == Len(calls) >= 2 /\ panic.at # "env_chatwork_token"

----------------------------------------------------------------------------
(* C10: chatwork_api_headers(t) is a header map of exactly one entry,      *)
(* X-ChatWorkToken with the value t as it is in the environment, and the   *)
(* POST that post_message sends carries that header and a form body whose  *)
(* only field, body, is the caller's message text as it was given.         *)
C10_HeaderAndFormUnchanged ==
    /\ AfterToken =>
          chatwork_api_headers(token) = {<<"X-ChatWorkToken", env.s>>}
    /\ sent # <<>> =>
          /\ sent[1].method = "POST"
          /\ {e \in sent[1].headers : e[1] = "X-ChatWorkToken"}
                = {<<"X-ChatWorkToken", env.s>>}
          /\ FormDecode(sent[1].body) = <<<<<<"b", "o", "d", "y">>, Arg(2).s>>>>

\* a token with spaces around it and the message & were sent as they are
C10_Witness ==
    /\ sent # <<>>
    /\ env.s = <<" ", "T", " ">>
    /\ Arg(2).s = <<"&">>
    /\ <<"X-ChatWorkToken", <<" ", "T", " ">>>> \in sent[1].headers
    /\ sent[1].body = <<"b", "o", "d", "y", "=", "%", "2", "6">>

====
